---- MODULE Spec2Model ----
(***************************************************************************)
(* Model of backend/main.py: the FastAPI endpoint POST                      *)
(* /api/validate_api_key.  A request body is validated against             *)
(* APIkeyValidationRequest, the coroutine validate_api_key builds an        *)
(* openai.OpenAI client from the key, issues one responses.create probe     *)
(* and maps the outcome of the probe to a response through its except       *)
(* clauses.  The provider library is an opaque dependency: what a           *)
(* construction or a probe yields for a key is drawn from small sets.       *)
(***************************************************************************)
EXTENDS Naturals, Sequences, FiniteSets, TLC

\* ------------------------------------------------------------------ bounds
NumRequests == 2

Requests == 1..NumRequests

\* Event loops (server processes) that run the coroutines.
Workers == {"w1", "w2"}

Credentials == {"sk-a", "sk-b"}

Messages == {"m1", "m2"}

Payloads == {"hi", "hello there"}

\* ------------------------------------------------- HTTP status constants
HTTP_200_OK == 200
HTTP_401_UNAUTHORIZED == 401
HTTP_422_UNPROCESSABLE == 422
HTTP_500_INTERNAL_SERVER_ERROR == 500
HTTP_502_BAD_GATEWAY == 502

\* ------------------------------------------------------ exception classes
\* The classes the except clauses name, with the provider library's
\* subclasses that the probe can raise, and one class outside the library.
ProviderClasses ==
    {"OpenAIError", "AuthenticationError", "RateLimitError",
     "InternalServerError", "APIConnectionError", "APITimeoutError"}

ExcClasses == ProviderClasses \cup {"Exception", "RuntimeError"}

\* Direct base class of each class.
BaseOf(c) ==
    CASE c = "AuthenticationError" -> "OpenAIError"
      [] c = "RateLimitError"      -> "OpenAIError"
      [] c = "InternalServerError" -> "OpenAIError"
      [] c = "APIConnectionError"  -> "OpenAIError"
      [] c = "APITimeoutError"     -> "APIConnectionError"
      [] c = "OpenAIError"         -> "Exception"
      [] c = "RuntimeError"        -> "Exception"
      [] OTHER                     -> "BaseException"

RECURSIVE IsInstance(_, _)
\* isinstance(e, cls) for an exception of class c: what an except clause tests.
IsInstance(c, cls) ==
    IF c = cls THEN TRUE
    ELSE IF c = "BaseException" THEN FALSE
    ELSE IsInstance(BaseOf(c), cls)

\* ------------------------------------------------- outcomes of the library
NoOutcome == [kind |-> "none"]

Completion(p) == [kind |-> "ok", payload |-> p]

Raised(c, m) == [kind |-> "raise", cls |-> c, msg |-> m]

\* What ai_api.responses.create can yield: a completion, or an exception of
\* the library (rejected key, quota, service unavailable, network failure,
\* timeout) or of another kind, carrying a message.
ProbeOutcomes ==
    {Completion(p) : p \in Payloads}
      \cup {Raised("AuthenticationError", "m1"),
            Raised("InternalServerError", "m1"),
            Raised("APIConnectionError", "m2"),
            Raised("APITimeoutError", "m1"),
            Raised("RuntimeError", "m2")}
      \cup {Raised("RateLimitError", m) : m \in Messages}

\* What openai.OpenAI(api_key=...) can yield for a string key.
ConstructOutcomes == {[kind |-> "ok"], Raised("RuntimeError", "m1")}

\* ------------------------------------------------------------ request body
MissingField == [unrelated |-> "x"]

Bodies == {[openai_api_key |-> k] : k \in Credentials} \cup {MissingField}

NoBody == [none |-> TRUE]

NoKey == "None"

\* ---------------------------------------------------------------- responses
NoResponse == [kind |-> "none"]

ReturnValue(v) == [kind |-> "return", status |-> HTTP_200_OK, body |-> v]

HTTPException(s, d) == [kind |-> "HTTPException", status |-> s, detail |-> d]

\* An exception that leaves validate_api_key without being mapped.
Unhandled(e) == [kind |-> "unhandled", exc |-> e]

\* The framework's answer to a body that fails APIkeyValidationRequest.
RequestValidationError == [kind |-> "RequestValidationError", status |-> HTTP_422_UNPROCESSABLE]

NoClient == [kind |-> "unbound"]

OpenAI(k) == [kind |-> "client", api_key |-> k]

\* str(e)
Str(e) == <<e.msg>>

VARIABLES
    pc,         \* position of each request's handling
    body,       \* the JSON body each request arrived with
    worker,     \* the event loop each request is served by
    loop,       \* per event loop: the request whose coroutine holds it, or 0
    ai_api,     \* the local variable ai_api of each invocation
    calls,      \* number of responses.create calls each invocation issued
    sentKey,    \* the api key each invocation's probe carried
    got,        \* what the library last gave each invocation
    resp,       \* what each request ended with
    provider,   \* provider-side state: key -> outcome of a probe
    construct   \* environment: key -> outcome of building a client

vars == <<pc, body, worker, loop, ai_api, calls, sentKey, got, resp, provider, construct>>

\* -------------------------------------------------------- body validation
\* The field declared with a default, so that any body passes.
BodyValid_Optional(b) == TRUE

\* APIkeyValidationRequest declares openai_api_key: str with no default, so
\* a body passes only when the field is present.
BodyValid(b) == "openai_api_key" \in DOMAIN b

\* req.openai_api_key
KeyOf(b) == IF "openai_api_key" \in DOMAIN b THEN b.openai_api_key ELSE NoKey

\* Outcome of openai.OpenAI(api_key=k): the environment's for a string key;
\* without a key the library raises its generic error.
ConstructOutcome(k) ==
    IF k \in Credentials THEN construct[k]
    ELSE Raised("OpenAIError", "m1")

\* Outcome of the probe carrying key k.
ProbeOutcome(k) ==
    IF k \in Credentials THEN provider[k]
    ELSE Raised("AuthenticationError", "m1")

\* ---------------------------------------------------- the try statement
\* Line 29: the return of the try block; the completion is not looked at.
OnSuccess(o) == ReturnValue([valid |-> TRUE])

\* Lines 30-34.
OnAuthenticationError(e) ==
    HTTPException(HTTP_401_UNAUTHORIZED, <<"Invalid API key">>)

\* Lines 35-39: the detail is the f-string "OpenAI error: {str(e)}".
OnOpenAIError(e) ==
    HTTPException(HTTP_502_BAD_GATEWAY, <<"OpenAI error: ">> \o Str(e))

\* Lines 40-44.
OnException(e) ==
    HTTPException(HTTP_500_INTERNAL_SERVER_ERROR, <<"Internal server error">>)

\* The generic clause placed before the authentication clause.
Handle_GenericFirst(o) ==
    IF o.kind = "ok" THEN OnSuccess(o)
    ELSE IF IsInstance(o.cls, "OpenAIError") THEN OnOpenAIError(o)
    ELSE IF IsInstance(o.cls, "AuthenticationError") THEN OnAuthenticationError(o)
    ELSE IF IsInstance(o.cls, "Exception") THEN OnException(o)
    ELSE Unhandled(o)

\* The second clause naming a class that connection errors and timeouts
\* are not instances of.
Handle_NarrowProviderClause(o) ==
    IF o.kind = "ok" THEN OnSuccess(o)
    ELSE IF IsInstance(o.cls, "AuthenticationError") THEN OnAuthenticationError(o)
    ELSE IF IsInstance(o.cls, "OpenAIError") /\ ~IsInstance(o.cls, "APIConnectionError")
        THEN OnOpenAIError(o)
    ELSE IF IsInstance(o.cls, "Exception") THEN OnException(o)
    ELSE Unhandled(o)

\* The verdict read off the completion's text.
Handle_InspectsCompletion(o) ==
    IF o.kind = "ok" THEN ReturnValue([valid |-> (o.payload = "hi")])
    ELSE IF IsInstance(o.cls, "AuthenticationError") THEN OnAuthenticationError(o)
    ELSE IF IsInstance(o.cls, "OpenAIError") THEN OnOpenAIError(o)
    ELSE IF IsInstance(o.cls, "Exception") THEN OnException(o)
    ELSE Unhandled(o)

\* A handler that remembers earlier invocations and throttles later ones.
Handle_Throttled(o) ==
    IF \E q \in Requests : resp[q].kind \in {"return", "HTTPException"}
        THEN HTTPException(HTTP_502_BAD_GATEWAY, <<"OpenAI error: ", "throttled">>)
    ELSE IF o.kind = "ok" THEN OnSuccess(o)
    ELSE IF IsInstance(o.cls, "AuthenticationError") THEN OnAuthenticationError(o)
    ELSE IF IsInstance(o.cls, "OpenAIError") THEN OnOpenAIError(o)
    ELSE IF IsInstance(o.cls, "Exception") THEN OnException(o)
    ELSE Unhandled(o)

\* The try statement of validate_api_key applied to the outcome o of
\* responses.create: the return on success, otherwise the first except
\* clause, in source order, whose class the exception is an instance of.
Handle(o) ==
    IF o.kind = "ok" THEN OnSuccess(o)
    ELSE IF IsInstance(o.cls, "AuthenticationError") THEN OnAuthenticationError(o)
    ELSE IF IsInstance(o.cls, "OpenAIError") THEN OnOpenAIError(o)
    ELSE IF IsInstance(o.cls, "Exception") THEN OnException(o)
    ELSE Unhandled(o)

\* One client kept at module level and shared by the invocations in flight.
ClientOf_Shared(r) ==
    LET live == {q \in Requests : pc[q] \in {"constructed", "calling"}}
    IN  ai_api[CHOOSE q \in live : \A p \in live : q <= p]

\* The client the probe of request r goes through: the invocation's own
\* local variable ai_api.
ClientOf(r) == ai_api[r]

\* A handler that re-issues the call once after a provider failure.
AfterProbe_Retry(r, o) ==
    IF /\ o.kind = "raise"
       /\ IsInstance(o.cls, "OpenAIError")
       /\ ~IsInstance(o.cls, "AuthenticationError")
       /\ calls[r] < 2
    THEN "constructed"
    ELSE "done"

\* Position of request r after its responses.create came back with o: the
\* handler returns or raises, it never loops back to the call.
AfterProbe(r, o) == "done"

\* ------------------------------------------------------------------- Init
Init ==
    /\ pc = [r \in Requests |-> "idle"]
    /\ body = [r \in Requests |-> NoBody]
    /\ worker = [r \in Requests |-> "w1"]
    /\ loop = [w \in Workers |-> 0]
    /\ ai_api = [r \in Requests |-> NoClient]
    /\ calls = [r \in Requests |-> 0]
    /\ sentKey = [r \in Requests |-> NoKey]
    /\ got = [r \in Requests |-> NoOutcome]
    /\ resp = [r \in Requests |-> NoResponse]
    /\ provider \in [Credentials -> ProbeOutcomes]
    /\ construct \in [Credentials -> ConstructOutcomes]

\* ---------------------------------------------------------------- actions
\* A POST arrives at event loop w with body b.  The framework validates the
\* body against the handler's parameter type: a body that fails is answered
\* 422 and validate_api_key is not called; otherwise the call is scheduled.
Receive(r, b, w) ==
    /\ pc[r] = "idle"
    /\ body' = [body EXCEPT ![r] = b]
    /\ worker' = [worker EXCEPT ![r] = w]
    /\ IF BodyValid(b)
         THEN /\ pc' = [pc EXCEPT ![r] = "ready"]
              /\ resp' = resp
         ELSE /\ pc' = [pc EXCEPT ![r] = "done"]
              /\ resp' = [resp EXCEPT ![r] = RequestValidationError]
    /\ UNCHANGED <<loop, ai_api, calls, sentKey, got, provider, construct>>

\* Line 23: the coroutine starts on its event loop and builds the client.
\* The statement stands outside the try, so an exception raised here
\* leaves the handler as it is.
Construct(r) ==
    /\ pc[r] = "ready"
    /\ loop[worker[r]] = 0
    /\ LET o == ConstructOutcome(KeyOf(body[r])) IN
         IF o.kind = "ok"
           THEN /\ ai_api' = [ai_api EXCEPT ![r] = OpenAI(KeyOf(body[r]))]
                /\ pc' = [pc EXCEPT ![r] = "constructed"]
                /\ loop' = [loop EXCEPT ![worker[r]] = r]
                /\ resp' = resp
                /\ got' = got
           ELSE /\ ai_api' = ai_api
                /\ got' = [got EXCEPT ![r] = o]
                /\ pc' = [pc EXCEPT ![r] = "done"]
                /\ loop' = loop
                /\ resp' = [resp EXCEPT ![r] = Unhandled(o)]
    /\ UNCHANGED <<body, worker, calls, sentKey, provider, construct>>

\* Lines 25-28: the synchronous call ai_api.responses.create is issued.  The
\* coroutine does not await, so it keeps its event loop while the call is
\* in flight.
IssueProbe(r) ==
    /\ pc[r] = "constructed"
    /\ calls' = [calls EXCEPT ![r] = @ + 1]
    /\ sentKey' = [sentKey EXCEPT ![r] = ClientOf(r).api_key]
    /\ pc' = [pc EXCEPT ![r] = "calling"]
    /\ UNCHANGED <<body, worker, loop, ai_api, got, resp, provider, construct>>

\* Lines 29-44: the call comes back and the try statement maps its outcome.
ProbeReturn(r) ==
    /\ pc[r] = "calling"
    /\ LET o == ProbeOutcome(sentKey[r]) IN
         /\ got' = [got EXCEPT ![r] = o]
         /\ resp' = [resp EXCEPT ![r] = Handle(o)]
         /\ pc' = [pc EXCEPT ![r] = AfterProbe(r, o)]
         /\ loop' = IF AfterProbe(r, o) = "done"
                      THEN [loop EXCEPT ![worker[r]] = 0]
                      ELSE loop
    /\ UNCHANGED <<body, worker, ai_api, calls, sentKey, provider, construct>>

Next ==
    \/ \E r \in Requests, b \in Bodies, w \in Workers : Receive(r, b, w)
    \/ \E r \in Requests : Construct(r)
    \/ \E r \in Requests : IssueProbe(r)
    \/ \E r \in Requests : ProbeReturn(r)

Spec == Init /\ [][Next]_vars

\* ------------------------------------------------------------- properties
Range(f) == {f[i] : i \in DOMAIN f}

HasKey(r) == "openai_api_key" \in DOMAIN body[r]

\* Request r's probe call has come back.
Probed(r) == pc[r] = "done" /\ calls[r] >= 1

AuthFailure(o) == o.kind = "raise" /\ o.cls = "AuthenticationError"

\* A failure of the provider library that is not an authentication failure.
ProviderFailure(o) ==
    /\ o.kind = "raise"
    /\ o.cls \in {"RateLimitError", "InternalServerError", "APIConnectionError",
                  "APITimeoutError", "OpenAIError"}

\* A fault that is not one of the provider library's errors.
InternalFault(o) == o.kind = "raise" /\ o.cls \notin ProviderClasses

InternalServerErrorResponse ==
    [kind |-> "HTTPException", status |-> 500, detail |-> <<"Internal server error">>]

\* C1: a request whose probe failed with an authentication failure is
\* answered 401 with detail "Invalid API key", never 502.
C1_AuthFailureIs401 ==
    \A r \in Requests :
        Probed(r) /\ AuthFailure(got[r]) =>
            /\ resp[r] = [kind |-> "HTTPException", status |-> 401,
                          detail |-> <<"Invalid API key">>]
            /\ resp[r].status # 502

C1_Witness ==
    \E r \in Requests :
        Probed(r) /\ AuthFailure(got[r]) /\ resp[r].kind = "HTTPException"

\* C2 (as claimed): an unexpected internal fault raised at any point of
\* handling a validated request, client construction included, is answered
\* 500 with detail "Internal server error", and the exception's text is not
\* in the response.
C2_AnyFaultIs500 ==
    \A r \in Requests :
        pc[r] = "done" /\ HasKey(r) /\ InternalFault(got[r]) =>
            /\ resp[r] = InternalServerErrorResponse
            /\ got[r].msg \notin Range(resp[r].detail)

\* C3: a provider-side failure of the probe that is not an authentication
\* failure is answered 502 with detail "OpenAI error: " followed by the
\* provider's message; a timeout is never answered 500 or 401.
C3_ProviderFailureIs502 ==
    \A r \in Requests :
        Probed(r) /\ ProviderFailure(got[r]) =>
            /\ resp[r] = [kind |-> "HTTPException", status |-> 502,
                          detail |-> <<"OpenAI error: ", got[r].msg>>]
            /\ resp[r].status \notin {500, 401}

C3_Witness ==
    \E r, q \in Requests :
        /\ Probed(r) /\ got[r].kind = "raise" /\ got[r].cls = "APITimeoutError"
        /\ resp[r].kind = "HTTPException"
        /\ Probed(q) /\ got[q].kind = "raise" /\ got[q].cls = "RateLimitError"
        /\ got[q].msg = "m2" /\ resp[q].kind = "HTTPException"

\* C4: a request whose probe returned a completion is answered 200 with
\* body {"valid": true}, whatever the completion holds.
C4_CompletionIs200 ==
    \A r \in Requests :
        Probed(r) /\ got[r].kind = "ok" =>
            resp[r] = [kind |-> "return", status |-> 200, body |-> [valid |-> TRUE]]

C4_Witness ==
    \E r, q \in Requests :
        /\ Probed(r) /\ got[r].kind = "ok" /\ got[r].payload = "hi"
        /\ Probed(q) /\ got[q].kind = "ok" /\ got[q].payload = "hello there"
        /\ resp[r].kind = "return" /\ resp[q].kind = "return"

\* C5 (as claimed): every invocation with an accepted body makes exactly one
\* call to the provider.
C5_ExactlyOneCall ==
    \A r \in Requests : pc[r] = "done" /\ HasKey(r) => calls[r] = 1

\* C5 (amended): an invocation never issues more than one probe call; once
\* it has ended it has issued exactly one if its client was constructed and
\* none if the construction raised or the body was rejected.
C5_AtMostOneCall ==
    \A r \in Requests :
        /\ calls[r] <= 1
        /\ pc[r] = "calling" => calls[r] = 1
        /\ pc[r] = "done" => calls[r] = (IF ai_api[r] = NoClient THEN 0 ELSE 1)

C5_Witness ==
    \E r, q \in Requests :
        /\ pc[r] = "done" /\ HasKey(r) /\ calls[r] = 1 /\ ProviderFailure(got[r])
        /\ pc[q] = "done" /\ HasKey(q) /\ calls[q] = 0 /\ got[q].kind = "raise"

\* C6: a request whose body lacks openai_api_key is answered 422 before the
\* handler runs: no client is constructed and no call is made for it.
C6_MissingFieldIs422 ==
    \A r \in Requests :
        body[r] # NoBody /\ ~HasKey(r) =>
            /\ pc[r] = "done"
            /\ resp[r] = [kind |-> "RequestValidationError", status |-> 422]
            /\ ai_api[r] = NoClient
            /\ calls[r] = 0
            /\ got[r] = NoOutcome

C6_Witness ==
    \E r, q \in Requests :
        /\ body[r] = MissingField /\ resp[r].kind = "RequestValidationError"
        /\ Probed(q)

\* C7: under any interleaving each request's probe carries its own
\* credential and its response is the classification of the provider's
\* outcome for that credential.
C7_NoCrossContamination ==
    \A r \in Requests :
        /\ pc[r] \in {"constructed", "calling"} => ai_api[r].api_key = body[r].openai_api_key
        /\ calls[r] >= 1 => sentKey[r] = body[r].openai_api_key
        /\ Probed(r) => /\ got[r] = provider[body[r].openai_api_key]
                        /\ resp[r] = Handle(provider[body[r].openai_api_key])

C7_Witness ==
    \E r, q \in Requests :
        /\ pc[r] = "calling" /\ pc[q] = "calling"
        /\ body[r].openai_api_key # body[q].openai_api_key
        /\ provider[body[r].openai_api_key].kind = "ok"
        /\ AuthFailure(provider[body[q].openai_api_key])

\* Class of a response: its status, or the fact that none was produced.
ResponseClass(x) ==
    IF x.kind \in {"return", "HTTPException"} THEN x.status ELSE 0

\* C8: with the provider-side state unchanged, two invocations with the
\* same credential end with the same response class.
C8_Idempotent ==
    \A r, q \in Requests :
        /\ pc[r] = "done" /\ pc[q] = "done"
        /\ HasKey(r) /\ HasKey(q)
        /\ body[r].openai_api_key = body[q].openai_api_key
        => ResponseClass(resp[r]) = ResponseClass(resp[q])

C8_Witness ==
    \E r, q \in Requests :
        /\ r # q /\ Probed(r) /\ Probed(q)
        /\ body[r].openai_api_key = body[q].openai_api_key
        /\ resp[r].kind = "return" /\ resp[q].kind = "return"

\* C9 (as claimed): while one request's provider call is in flight, another
\* request that has arrived can start: its handler can construct its client.
C9_OthersNotBlocked ==
    \A r, q \in Requests :
        r # q /\ pc[r] = "calling" /\ pc[q] = "ready" => ENABLED Construct(q)

FourOutcomes ==
    {[kind |-> "return", status |-> 200, body |-> [valid |-> TRUE]],
     [kind |-> "HTTPException", status |-> 401, detail |-> <<"Invalid API key">>],
     InternalServerErrorResponse}
      \cup {[kind |-> "HTTPException", status |-> 502, detail |-> <<"OpenAI error: ", m>>] :
               m \in Messages}

\* C10 (as claimed): every request with a well-formed body ends with one of
\* the four outcomes 200, 401, 502, 500; no path leaves an exception
\* unclassified.
C10_OneOfFourOutcomes ==
    \A r \in Requests : pc[r] = "done" /\ HasKey(r) => resp[r] \in FourOutcomes

====
